---- MODULE Spec2Model ----
(***************************************************************************)
(* Model of run_strategy.py: the command-line dispatcher that resolves a   *)
(* strategy class from a module and runs it live or as a backtest.         *)
(*                                                                         *)
(* Strings whose characters matter (class names, the operator's response)  *)
(* are sequences of one-character strings.  Optional values are tuples:    *)
(* <<>> is Python's None and <<v>> is the value v.                         *)
(***************************************************************************)
EXTENDS Integers, Sequences, FiniteSets, TLC

None == <<>>
Some(v) == <<v>>
IsNone(o) == o = <<>>
Val(o) == o[1]

(***************************************************************************)
(* Bounds of the model.                                                    *)
(***************************************************************************)
MaxStmts == 2        \* statements in a strategy module
MaxClockDays == 2    \* distinct calendar days the clock may show
MaxShiftDays == 2    \* clock advances compared by the window properties

(***************************************************************************)
(* Characters: code points (str comparison) and str.lower().               *)
(***************************************************************************)
Ord(c) ==
  CASE c = " " -> 32
    [] c = "A" -> 65 [] c = "B" -> 66 [] c = "E" -> 69 [] c = "N" -> 78
    [] c = "O" -> 79 [] c = "S" -> 83 [] c = "Y" -> 89
    [] c = "_" -> 95
    [] c = "a" -> 97 [] c = "b" -> 98 [] c = "e" -> 101 [] c = "n" -> 110
    [] c = "o" -> 111 [] c = "s" -> 115 [] c = "y" -> 121

Chr(n) ==
  CHOOSE c \in {" ", "A", "B", "E", "N", "O", "S", "Y", "_",
                "a", "b", "e", "n", "o", "s", "y"} : Ord(c) = n

\* str.lower() on one character: A-Z map to a-z, everything else is kept
LowerChar(c) == IF Ord(c) >= 65 /\ Ord(c) <= 90 THEN Chr(Ord(c) + 32) ELSE c

\* str.strip() for the blank character
RECURSIVE Strip(_)
Strip(s) ==
  IF s = <<>> THEN s
  ELSE IF Head(s) = " " THEN Strip(Tail(s))
  ELSE IF s[Len(s)] = " " THEN Strip(SubSeq(s, 1, Len(s) - 1))
  ELSE s

\* variant of Lower that also strips surrounding blanks
Lower_Strip(s) == [i \in 1..Len(Strip(s)) |-> LowerChar(Strip(s)[i])]

\* str.lower()
Lower(s) == [i \in 1..Len(s) |-> LowerChar(s[i])]

\* s < t for Python strings: lexicographic by code point
RECURSIVE StrLess(_, _)
StrLess(s, t) ==
  IF t = <<>> THEN FALSE
  ELSE IF s = <<>> THEN TRUE
  ELSE IF Ord(Head(s)) # Ord(Head(t)) THEN Ord(Head(s)) < Ord(Head(t))
  ELSE StrLess(Tail(s), Tail(t))

(***************************************************************************)
(* Dates.  A "YYYY-MM-DD" argument is the record of its three numeric      *)
(* fields; a datetime is its proleptic Gregorian ordinal plus the second   *)
(* of the day, which is how datetime arithmetic with a timedelta works.    *)
(***************************************************************************)
IsLeap(y) == y % 4 = 0 /\ (y % 100 # 0 \/ y % 400 = 0)

DaysInMonth(y, m) ==
  IF m = 2 THEN (IF IsLeap(y) THEN 29 ELSE 28)
  ELSE IF m \in {4, 6, 9, 11} THEN 30 ELSE 31

DaysBeforeYear(y) ==
  (y - 1) * 365 + ((y - 1) \div 4) - ((y - 1) \div 100) + ((y - 1) \div 400)

RECURSIVE DaysBeforeMonth(_, _)
DaysBeforeMonth(y, m) ==
  IF m = 1 THEN 0 ELSE DaysBeforeMonth(y, m - 1) + DaysInMonth(y, m - 1)

Ymd2Ord(y, m, d) == DaysBeforeYear(y) + DaysBeforeMonth(y, m) + d

\* datetime.strptime(s, '%Y-%m-%d'): <<"ok", datetime>> or <<"ValueError">>
Strptime(s) ==
  IF s.y >= 1 /\ s.y <= 9999 /\ s.m >= 1 /\ s.m <= 12
     /\ s.d >= 1 /\ s.d <= DaysInMonth(s.y, s.m)
  THEN <<"ok", [ord |-> Ymd2Ord(s.y, s.m, s.d), sec |-> 0]>>
  ELSE <<"ValueError">>

\* datetime - timedelta(days=n)
MinusDays(dt, n) == [ord |-> dt.ord - n, sec |-> dt.sec]

OneYearDays == 365

\* yesterday = datetime.now() - timedelta(days=1)
Yesterday(now) == MinusDays(now, 1)

\* variant of OneYearFromYesterday that counts the year back from now
OneYearFromYesterday_FromNow(now) == MinusDays(now, OneYearDays)

\* one_year_from_yesterday = yesterday - timedelta(days=365)
OneYearFromYesterday(now) == MinusDays(Yesterday(now), OneYearDays)

\* variant of RunWindow that derives a missing start from the supplied end
RunWindow_Relative(start_date, end_date, now) ==
  [start |-> IF ~IsNone(start_date) THEN Val(start_date)
             ELSE IF ~IsNone(end_date) THEN MinusDays(Val(end_date), OneYearDays)
             ELSE OneYearFromYesterday(now),
   end |-> IF ~IsNone(end_date) THEN Val(end_date) ELSE Yesterday(now)]

\* backtesting_start = start_date if start_date else one_year_from_yesterday
\* backtesting_end = end_date if end_date else yesterday
RunWindow(start_date, end_date, now) ==
  [start |-> IF ~IsNone(start_date) THEN Val(start_date)
             ELSE OneYearFromYesterday(now),
   end |-> IF ~IsNone(end_date) THEN Val(end_date) ELSE Yesterday(now)]

(***************************************************************************)
(* Strategy modules.  A module source is a sequence of top-level           *)
(* statements, each binding a name: "class" defines a class in the module, *)
(* "import" binds a class defined in another module (such as the base      *)
(* strategy class), "def" binds something that is not a class.             *)
(***************************************************************************)
ClassNames == {<<"B">>, <<"A", "b">>, <<"a">>}
StmtKinds == {"class", "import", "def"}
Stmts == [name : ClassNames, kind : StmtKinds]

ModuleSources == UNION {[1..n -> Stmts] : n \in 0..MaxStmts}

OtherModule == <<"lumibot", "strategies">>

\* the object a statement binds; line is the statement's position, which
\* tells two classes of the same name apart
BoundObject(modname, src, i) ==
  [name |-> src[i].name,
   isclass |-> src[i].kind # "def",
   module |-> IF src[i].kind = "import" THEN OtherModule ELSE modname,
   line |-> i]

\* the module's namespace after its statements ran: the last binding of a
\* name wins
ModuleDict(modname, src) ==
  [n \in {src[i].name : i \in 1..Len(src)} |->
     LET last == CHOOSE i \in 1..Len(src) :
                   /\ src[i].name = n
                   /\ \A j \in 1..Len(src) : src[j].name = n => j <= i
     IN BoundObject(modname, src, last)]

\* the names of a set in increasing str order
RECURSIVE SortedNames(_)
SortedNames(S) ==
  IF S = {} THEN <<>>
  ELSE LET m == CHOOSE x \in S : \A y \in S : y = x \/ StrLess(x, y)
       IN <<m>> \o SortedNames(S \ {m})

\* inspect.getmembers(module, inspect.isclass): the (name, object) pairs of
\* the class-valued attributes, sorted by name
GetMembersIsClass(mod) ==
  LET names == {n \in DOMAIN mod.dict : mod.dict[n].isclass}
      sorted == SortedNames(names)
  IN [i \in 1..Len(sorted) |-> <<sorted[i], mod.dict[sorted[i]]>>]

\* variant of find_strategy_class that takes the first class of any origin
find_strategy_class_AnyClass(mod) ==
  LET members == GetMembersIsClass(mod)
  IN IF Len(members) = 0 THEN None ELSE Some(members[1][2])

\* find_strategy_class(module): the first member whose __module__ is the
\* module's __name__, or None
find_strategy_class(mod) ==
  LET members == GetMembersIsClass(mod)
      hits == {i \in 1..Len(members) : members[i][2].module = mod.name}
  IN IF hits = {} THEN None
     ELSE Some(members[CHOOSE i \in hits : \A j \in hits : i <= j][2])

(***************************************************************************)
(* Broker selection.                                                       *)
(***************************************************************************)
\* variant of configure_broker with the two connectors exchanged
configure_broker_Swapped(broker_choice) ==
  IF broker_choice = "IB"
  THEN [raised |-> "None",
        value |-> Some([cls |-> "Ccxt", config |-> "KRAKEN_CONFIG"])]
  ELSE IF broker_choice = "Kraken"
  THEN [raised |-> "None",
        value |-> Some([cls |-> "InteractiveBrokers",
                        config |-> "INTERACTIVE_BROKERS_CONFIG"])]
  ELSE [raised |-> "ValueError: Invalid broker choice", value |-> None]

\* configure_broker(broker_choice): the connector it constructs, or the
\* exception it raises
configure_broker(broker_choice) ==
  IF broker_choice = "IB"
  THEN [raised |-> "None",
        value |-> Some([cls |-> "InteractiveBrokers",
                        config |-> "INTERACTIVE_BROKERS_CONFIG"])]
  ELSE IF broker_choice = "Kraken"
  THEN [raised |-> "None",
        value |-> Some([cls |-> "Ccxt", config |-> "KRAKEN_CONFIG"])]
  ELSE [raised |-> "ValueError: Invalid broker choice", value |-> None]

\* a call of configure_broker with the positional arguments argv: binding
\* the one required parameter fails with TypeError unless exactly one
\* argument is passed
CallConfigureBroker(argv) ==
  IF Len(argv) # 1
  THEN [raised |-> "TypeError", value |-> None]
  ELSE configure_broker(argv[1])

(***************************************************************************)
(* Inputs.                                                                 *)
(***************************************************************************)
\* strategy_file, as its dot-separated parts
StrategyFiles == {<<"my_strategy", "py">>, <<"my_strategy">>}

\* argparse: --broker has choices ['IB', 'Kraken']
BrokerChoices == {"IB", "Kraken"}

\* values of --start and --end: a leap day, a later day, and a day that
\* does not exist
DateArgs == {[y |-> 2024, m |-> 2, d |-> 29],
             [y |-> 2024, m |-> 6, d |-> 1],
             [y |-> 2023, m |-> 2, d |-> 29]}

\* what the operator may type at the confirmation prompt
Responses ==
  {<<>>, <<"y">>, <<"y", "e">>, <<"y", "e", "s">>, <<"Y", "E", "S">>,
   <<"Y", "e", "s">>, <<"y", "E", "s">>, <<" ", "y", "e", "s">>,
   <<"y", "e", "s", " ">>, <<"y", "e", "s", "s">>, <<"n", "o">>,
   <<"N", "O">>}

\* what datetime.now() may return
ClockValues ==
  [ord : {Ymd2Ord(2024, 3, 1) + k : k \in 0..(MaxClockDays - 1)},
   sec : {0, 43200}]

\* arguments a direct caller may pass to configure_broker
BrokerInputs == {"IB", "Kraken", "ib", "Alpaca"}

FeePerMille == 5
RiskFreeRateMilli == 5233

(***************************************************************************)
(* State.                                                                  *)
(***************************************************************************)
VARIABLES
  entry,            \* how the file is used: run as a script, or a function called
  pc,               \* position in the script
  args,             \* parse_arguments() result
  module_name,      \* global module_name
  strategy_module,  \* global strategy_module
  strategy_class,   \* global strategy_class
  start_date,       \* global start_date
  end_date,         \* global end_date
  stdin,            \* the line the operator typed at the prompt
  confirm,          \* run_strategy local confirm
  now,              \* the value datetime.now() returned
  trader,           \* run_strategy local trader
  broker,           \* the connector configure_broker constructed
  strategy,         \* run_strategy local strategy
  backtest_call,    \* the arguments strategy_class.backtest was called with
  calls,            \* collaborator calls made, in order
  output,           \* lines printed
  exception,        \* the exception that left the process or call, or "None"
  exit_status       \* process exit status once it ended

vars == <<entry, pc, args, module_name, strategy_module, strategy_class,
          start_date, end_date, stdin, confirm, now, trader, broker, strategy,
          backtest_call, calls, output, exception, exit_status>>

Init ==
  /\ entry \in {"__main__", "configure_broker"}
  /\ pc = "start"
  /\ args = None
  /\ module_name = None
  /\ strategy_module = None
  /\ strategy_class = None
  /\ start_date = None
  /\ end_date = None
  /\ stdin = None
  /\ confirm = None
  /\ now = None
  /\ trader = None
  /\ broker = None
  /\ strategy = None
  /\ backtest_call = None
  /\ calls = <<>>
  /\ output = <<>>
  /\ exception = "None"
  /\ exit_status = None

\* strategy_file.rsplit('.', 1)[0]
StripExtension(file) ==
  IF Len(file) > 1 THEN SubSeq(file, 1, Len(file) - 1) ELSE file

\* an uncaught exception ends the process with a traceback and status 1
Uncaught(exc) ==
  /\ exception' = exc
  /\ exit_status' = Some(1)
  /\ pc' = "exit"

Yes == <<"y", "e", "s">>

\* variant of IsBacktestMode that takes the backtest branch in either mode
IsBacktestMode_Always(is_live) == TRUE

\* the else branch of "if is_live:"
IsBacktestMode(is_live) == ~is_live

\* variant of RaisesNoStrategy that never raises
RaisesNoStrategy_Never(cls) == FALSE

\* if not strategy_class: raise ImportError(...)
RaisesNoStrategy(cls) == IsNone(cls)

\* args = parse_arguments(); module_name = args.strategy_file.rsplit('.', 1)[0]
ParseArguments ==
  /\ entry = "__main__" /\ pc = "start"
  /\ \E f \in StrategyFiles, live \in BOOLEAN, b \in BrokerChoices,
        s \in {None} \cup {Some(d) : d \in DateArgs},
        e \in {None} \cup {Some(d) : d \in DateArgs} :
       /\ args' = Some([strategy_file |-> f, live |-> live, broker |-> b,
                        start |-> s, end |-> e])
       /\ module_name' = Some(StripExtension(f))
  /\ pc' = "import"
  /\ UNCHANGED <<entry, strategy_module, strategy_class, start_date, end_date,
                 stdin, confirm, now, trader, broker, strategy, backtest_call, calls,
                 output, exception, exit_status>>

\* strategy_module = importlib.import_module(module_name)
ImportModule ==
  /\ pc = "import"
  /\ calls' = Append(calls, "import_module")
  /\ \/ \E src \in ModuleSources :
          /\ strategy_module' =
               Some([name |-> Val(module_name),
                     source |-> src,
                     dict |-> ModuleDict(Val(module_name), src)])
          /\ pc' = "find"
          /\ UNCHANGED <<exception, exit_status>>
     \/ /\ pc' = "except"
        /\ exception' = "ImportError"
        /\ UNCHANGED <<strategy_module, exit_status>>
     \/ /\ Uncaught("SyntaxError")
        /\ UNCHANGED strategy_module
  /\ UNCHANGED <<entry, args, module_name, strategy_class, start_date,
                 end_date, stdin, confirm, now, trader, broker, strategy,
                 backtest_call, output>>

\* strategy_class = find_strategy_class(strategy_module)
\* if not strategy_class: raise ImportError(...)
FindStrategyClass ==
  /\ pc = "find"
  /\ strategy_class' = find_strategy_class(Val(strategy_module))
  /\ IF RaisesNoStrategy(strategy_class')
     THEN pc' = "except" /\ exception' = "ImportError"
     ELSE pc' = "dates" /\ UNCHANGED exception
  /\ UNCHANGED <<entry, args, module_name, strategy_module, start_date,
                 end_date, stdin, confirm, now, trader, broker, strategy,
                 backtest_call, calls, output, exit_status>>

\* except ImportError as e: print(...); exit(1)
ExceptImportError ==
  /\ pc = "except"
  /\ output' = Append(output, "Error importing strategy")
  /\ exception' = "None"
  /\ exit_status' = Some(1)
  /\ pc' = "exit"
  /\ UNCHANGED <<entry, args, module_name, strategy_module, strategy_class,
                 start_date, end_date, stdin, confirm, now, trader, broker, strategy,
                 backtest_call, calls>>

\* start_date = datetime.strptime(args.start, '%Y-%m-%d') if args.start else None
\* end_date = datetime.strptime(args.end, '%Y-%m-%d') if args.end else None
ParseDates ==
  /\ pc = "dates"
  /\ LET a == Val(args)
         s == IF IsNone(a.start) THEN <<"ok">> ELSE Strptime(Val(a.start))
         e == IF IsNone(a.end) THEN <<"ok">> ELSE Strptime(Val(a.end))
         sv == IF Len(s) = 2 THEN Some(s[2]) ELSE None
         ev == IF Len(e) = 2 THEN Some(e[2]) ELSE None
     IN IF s[1] # "ok"
        THEN /\ calls' = Append(calls, "strptime")
             /\ Uncaught("ValueError: day is out of range for month")
             /\ UNCHANGED <<start_date, end_date>>
        ELSE IF e[1] # "ok"
        THEN /\ calls' = calls \o (IF IsNone(a.start) THEN <<>> ELSE <<"strptime">>)
                               \o <<"strptime">>
             /\ start_date' = sv
             /\ Uncaught("ValueError: day is out of range for month")
             /\ UNCHANGED end_date
        ELSE /\ calls' = calls \o (IF IsNone(a.start) THEN <<>> ELSE <<"strptime">>)
                               \o (IF IsNone(a.end) THEN <<>> ELSE <<"strptime">>)
                               \o <<"run_strategy">>
             /\ start_date' = sv
             /\ end_date' = ev
             /\ pc' = "run_strategy"
             /\ UNCHANGED <<exception, exit_status>>
  /\ UNCHANGED <<entry, args, module_name, strategy_module, strategy_class,
                 stdin, confirm, now, trader, broker, strategy, backtest_call, output>>

\* the positional arguments run_strategy passes to configure_broker
ConfigureBrokerArgs(broker_choice) == <<>>

\* run_strategy, is_live: print(...); confirm = input(...).lower()
ConfirmLive ==
  /\ pc = "run_strategy"
  /\ Val(args).live
  /\ output' = Append(output, "Configured to run in live mode with broker")
  /\ calls' = Append(calls, "input")
  /\ \E r \in Responses : stdin' = Some(r) /\ confirm' = Some(Lower(r))
  /\ pc' = "confirm"
  /\ UNCHANGED <<entry, args, module_name, strategy_module, strategy_class,
                 start_date, end_date, now, trader, broker, strategy,
                 backtest_call, exception, exit_status>>

\* if confirm != 'yes': print("Operation cancelled."); return
Cancel ==
  /\ pc = "confirm"
  /\ Val(confirm) # Yes
  /\ output' = Append(output, "Operation cancelled.")
  /\ exit_status' = Some(0)
  /\ pc' = "exit"
  /\ UNCHANGED <<entry, args, module_name, strategy_module, strategy_class,
                 start_date, end_date, stdin, confirm, now, trader, broker, strategy,
                 backtest_call, calls, exception>>

\* trader = Trader(); broker = configure_broker()
\* strategy = strategy_class(broker=broker); trader.add_strategy(strategy)
\* trader.run_all()
LiveRun ==
  /\ pc = "confirm"
  /\ Val(confirm) = Yes
  /\ trader' = Some("Trader")
  /\ LET r == CallConfigureBroker(ConfigureBrokerArgs(Val(args).broker))
     IN IF r.raised # "None"
        THEN /\ calls' = Append(calls, "Trader")
             /\ Uncaught(r.raised)
             /\ UNCHANGED <<broker, strategy>>
        ELSE /\ broker' = r.value
             /\ strategy' = Some([cls |-> Val(strategy_class),
                                  broker |-> Val(r.value)])
             /\ calls' = calls \o <<"Trader", Val(r.value).cls,
                                    "strategy_class", "add_strategy",
                                    "run_all">>
             /\ exit_status' = Some(0)
             /\ pc' = "exit"
             /\ UNCHANGED exception
  /\ UNCHANGED <<entry, args, module_name, strategy_module, strategy_class,
                 start_date, end_date, stdin, confirm, now, backtest_call, output>>

\* variant of BacktestArguments that names the log file after the broker
BacktestArguments_BrokerLog(strategy_cls, broker_choice, start_dt, end_dt, modname, clock) ==
  [strategy_class |-> strategy_cls,
   datasource |-> "PolygonDataBacktesting",
   start |-> RunWindow(start_dt, end_dt, clock).start,
   end |-> RunWindow(start_dt, end_dt, clock).end,
   polygon_api_key |-> "POLYGON_CONFIG.API_KEY",
   polygon_has_paid_subscription |-> TRUE,
   risk_free_rate |-> RiskFreeRateMilli,
   buy_trading_fees |-> <<FeePerMille>>,
   sell_trading_fees |-> <<FeePerMille>>,
   logfile |-> <<"logs">> \o modname \o <<broker_choice, "log">>,
   parameters |-> <<>>]

\* the arguments of strategy_class.backtest(...), from run_strategy's
\* parameters, the global module_name and the clock
BacktestArguments(strategy_cls, broker_choice, start_dt, end_dt, modname, clock) ==
  [strategy_class |-> strategy_cls,
   datasource |-> "PolygonDataBacktesting",
   start |-> RunWindow(start_dt, end_dt, clock).start,
   end |-> RunWindow(start_dt, end_dt, clock).end,
   polygon_api_key |-> "POLYGON_CONFIG.API_KEY",
   polygon_has_paid_subscription |-> TRUE,
   risk_free_rate |-> RiskFreeRateMilli,
   buy_trading_fees |-> <<FeePerMille>>,
   sell_trading_fees |-> <<FeePerMille>>,
   logfile |-> <<"logs">> \o modname \o <<"log">>,
   parameters |-> <<>>]

\* run_strategy, not is_live: compute the window, print, and call
\* strategy_class.backtest(...)
Backtest ==
  /\ pc = "run_strategy"
  /\ IsBacktestMode(Val(args).live)
  /\ \E n \in ClockValues :
       /\ now' = Some(n)
       /\ backtest_call' =
            Some(BacktestArguments(Val(strategy_class), Val(args).broker,
                                   start_date, end_date, Val(module_name), n))
  /\ calls' = calls \o <<"now", "TradingFee", "backtest">>
  /\ output' = Append(output, "Starting Backtest...")
  /\ exit_status' = Some(0)
  /\ pc' = "exit"
  /\ UNCHANGED <<entry, args, module_name, strategy_module, strategy_class,
                 start_date, end_date, stdin, confirm, trader, broker, strategy,
                 exception>>

\* configure_broker called on its own with one argument
DirectConfigureBroker ==
  /\ entry = "configure_broker" /\ pc = "start"
  /\ \E b \in BrokerInputs :
       LET r == CallConfigureBroker(<<b>>)
       IN /\ args' = Some([broker_choice |-> b])
          /\ broker' = r.value
          /\ exception' = r.raised
          /\ calls' = IF IsNone(r.value) THEN calls
                      ELSE Append(calls, Val(r.value).cls)
  /\ pc' = "returned"
  /\ UNCHANGED <<entry, module_name, strategy_module, strategy_class,
                 start_date, end_date, stdin, confirm, now, trader, strategy,
                 backtest_call, output, exit_status>>

Next ==
  \/ ParseArguments
  \/ ImportModule
  \/ FindStrategyClass
  \/ ExceptImportError
  \/ ParseDates
  \/ ConfirmLive
  \/ Cancel
  \/ LiveRun
  \/ Backtest
  \/ DirectConfigureBroker

Spec == Init /\ [][Next]_vars

(***************************************************************************)
(* Properties.                                                             *)
(***************************************************************************)
DtLess(a, b) == a.ord < b.ord \/ (a.ord = b.ord /\ a.sec < b.sec)

Has(seq, x) == \E i \in 1..Len(seq) : seq[i] = x
Count(seq, x) == Cardinality({i \in 1..Len(seq) : seq[i] = x})

IsMain == entry = "__main__"
IsLive == IsMain /\ ~IsNone(args) /\ Val(args).live
IsBacktest == IsMain /\ ~IsNone(args) /\ ~Val(args).live

\* the response is 'yes' up to the case of its letters
IsYesIgnoringCase(r) ==
  Len(r) = 3 /\ r[1] \in {"y", "Y"} /\ r[2] \in {"e", "E"} /\ r[3] \in {"s", "S"}

ConnectorCalls == {"InteractiveBrokers", "Ccxt"}
LiveCalls == {"Trader", "strategy_class", "add_strategy", "run_all"}
            \cup ConnectorCalls

Connector(choice) ==
  IF choice = "IB"
  THEN [cls |-> "InteractiveBrokers", config |-> "INTERACTIVE_BROKERS_CONFIG"]
  ELSE [cls |-> "Ccxt", config |-> "KRAKEN_CONFIG"]

\* C1: in live mode, a response that is not 'yes' up to case (such as 'y',
\* the empty line, or 'yes' with a blank before or after it) cancels the
\* run: no runner, connector or strategy is constructed, the backtest
\* engine is not called, and the process prints the cancellation notice and
\* ends with status 0.
C1_ConfirmationGate ==
  (IsLive /\ ~IsNone(stdin) /\ ~IsYesIgnoringCase(Val(stdin))) =>
    /\ trader = None /\ broker = None /\ strategy = None
    /\ backtest_call = None
    /\ \A c \in LiveCalls \cup {"backtest"} : ~Has(calls, c)
    /\ exception = "None"
    /\ pc \in {"confirm", "exit"}
    /\ pc = "exit" =>
         /\ exit_status = Some(0)
         /\ output[Len(output)] = "Operation cancelled."

C1_Witness ==
  /\ IsLive /\ pc = "exit"
  /\ stdin = Some(<<" ", "y", "e", "s">>)
  /\ exit_status = Some(0)
  /\ output[Len(output)] = "Operation cancelled."

\* C2: in live mode, after the response 'yes' (up to case) the run ends
\* with the connector of the chosen broker constructed, the strategy bound
\* to it, and the connector, the strategy, its registration and the start
\* of the runner made in that order, with status 0.
C2_LiveRunAfterYes ==
  (IsLive /\ pc = "exit" /\ ~IsNone(stdin) /\ IsYesIgnoringCase(Val(stdin))) =>
    /\ broker = Some(Connector(Val(args).broker))
    /\ strategy = Some([cls |-> Val(strategy_class),
                        broker |-> Connector(Val(args).broker)])
    /\ \E i, j, k, l \in 1..Len(calls) :
         /\ i < j /\ j < k /\ k < l
         /\ calls[i] = Connector(Val(args).broker).cls
         /\ calls[j] = "strategy_class"
         /\ calls[k] = "add_strategy"
         /\ calls[l] = "run_all"
    /\ exit_status = Some(0)

LiveSession == Has(calls, "run_all")
BacktestSession == Has(calls, "backtest")

\* C3 (as stated): every invocation that runs the dispatcher to a normal
\* end has created exactly one of the live session and the backtest session.
C3_ExactlyOneSession ==
  (IsMain /\ pc = "exit" /\ Has(calls, "run_strategy") /\ exit_status = Some(0))
    => (LiveSession /\ ~BacktestSession) \/ (~LiveSession /\ BacktestSession)

\* C3 (amended): an invocation creates at most one session and never both:
\* the backtest engine is called at most once and only in backtest mode,
\* the live runner is started at most once and only in live mode.
C3_AtMostOneSession ==
  IsMain =>
    /\ ~(LiveSession /\ BacktestSession)
    /\ Count(calls, "run_all") <= 1
    /\ Count(calls, "backtest") <= 1
    /\ BacktestSession <=> ~IsNone(backtest_call)
    /\ BacktestSession => IsBacktest
    /\ LiveSession => IsLive

C3_Witness ==
  /\ IsBacktest /\ pc = "exit"
  /\ BacktestSession /\ ~LiveSession
  /\ Count(calls, "backtest") = 1

\* no class in the module's namespace was defined by the module itself
NoQualifyingClass(mod) ==
  \A n \in DOMAIN mod.dict :
    ~(mod.dict[n].isclass /\ mod.source[mod.dict[n].line].kind = "class")

ResolutionFailed ==
  /\ IsMain /\ Has(calls, "import_module") /\ pc # "find"
  /\ \/ IsNone(strategy_module)
     \/ NoQualifyingClass(Val(strategy_module))

\* C4: when the strategy module cannot be imported or holds no qualifying
\* class, no date is parsed, the dispatcher is not entered, the operator is
\* not prompted, no connector or runner is constructed and the backtest
\* engine is not called; the process ends with an error message and a
\* non-zero status.
C4_ResolutionFailureFirst ==
  ResolutionFailed =>
    /\ \A c \in LiveCalls \cup {"backtest", "strptime", "input", "run_strategy", "now"} :
         ~Has(calls, c)
    /\ start_date = None /\ end_date = None /\ stdin = None
    /\ trader = None /\ broker = None /\ backtest_call = None
    /\ pc \in {"except", "exit"}
    /\ pc = "exit" =>
         /\ exit_status = Some(1)
         /\ \/ (output # <<>> /\ output[Len(output)] = "Error importing strategy")
            \/ exception # "None"

C4_Witness ==
  /\ ResolutionFailed /\ pc = "exit"
  /\ ~IsNone(strategy_module)
  /\ Val(strategy_module).dict # <<>>
  /\ ~IsNone(Val(args).start)
  /\ exit_status = Some(1)
  /\ output = <<"Error importing strategy">>

\* ordinals of the valid date arguments (date.toordinal())
ExpectedDatetime(d) ==
  [ord |-> IF d = [y |-> 2024, m |-> 2, d |-> 29] THEN 738945
           ELSE IF d = [y |-> 2024, m |-> 6, d |-> 1] THEN 739038
           ELSE 0,
   sec |-> 0]

SuppliedStart == ~IsNone(Val(args).start)
SuppliedEnd == ~IsNone(Val(args).end)

\* C5: in backtest mode, two supplied dates reach the engine unchanged
\* whatever their order; with only the end supplied the start is
\* (now - 1 day) - 365 days; with only the start supplied the end is
\* now - 1 day.
C5_WindowBoundsIndependent ==
  (IsBacktest /\ ~IsNone(backtest_call)) =>
    LET c == Val(backtest_call)
        n == Val(now)
    IN /\ SuppliedStart => c.start = ExpectedDatetime(Val(Val(args).start))
       /\ SuppliedEnd => c.end = ExpectedDatetime(Val(Val(args).end))
       /\ (~SuppliedStart /\ SuppliedEnd) =>
            c.start = [ord |-> (n.ord - 1) - 365, sec |-> n.sec]
       /\ (SuppliedStart /\ ~SuppliedEnd) =>
            c.end = [ord |-> n.ord - 1, sec |-> n.sec]

C5_Witness ==
  /\ IsBacktest /\ ~IsNone(backtest_call)
  /\ ~SuppliedStart /\ SuppliedEnd
  /\ Val(backtest_call).start.ord # Val(backtest_call).end.ord - 365
  /\ Val(backtest_call).start.ord = Val(now).ord - 366

\* C6: with neither date supplied, the engine gets end = now - 1 day and
\* start = end - 365 days, so start < end < now; the window is a function
\* of the clock and a clock d days later gives both bounds d days later.
C6_DefaultWindow ==
  (IsBacktest /\ ~IsNone(backtest_call) /\ ~SuppliedStart /\ ~SuppliedEnd) =>
    LET c == Val(backtest_call)
        n == Val(now)
    IN /\ c.end = [ord |-> n.ord - 1, sec |-> n.sec]
       /\ c.start = [ord |-> c.end.ord - 365, sec |-> c.end.sec]
       /\ DtLess(c.start, c.end) /\ DtLess(c.end, n)
       /\ \A d \in 0..MaxShiftDays :
            RunWindow(None, None, [n EXCEPT !.ord = @ + d]) =
              [start |-> [c.start EXCEPT !.ord = @ + d],
               end |-> [c.end EXCEPT !.ord = @ + d]]

C6_Witness ==
  /\ IsBacktest /\ ~IsNone(backtest_call) /\ ~SuppliedStart /\ ~SuppliedEnd
  /\ Val(now) = [ord |-> 738946, sec |-> 43200]
  /\ Val(backtest_call).end = [ord |-> 738945, sec |-> 43200]
  /\ Val(backtest_call).start = [ord |-> 738580, sec |-> 43200]

\* the classes of the module's namespace that the module itself defined
Candidates(mod) ==
  {mod.dict[n] : n \in {x \in DOMAIN mod.dict :
                          /\ mod.dict[x].isclass
                          /\ mod.source[mod.dict[x].line].kind = "class"}}

Resolved == IsMain /\ ~IsNone(strategy_module) /\ pc # "find"

\* the order of the class names as Python strings: "Ab" < "B" < "a"
NameRank(n) == IF n = <<"A", "b">> THEN 1 ELSE IF n = <<"B">> THEN 2 ELSE 3

\* C7: of two or more candidate classes the resolver returns the one
\* declared first in the module's source.
C7_FirstDeclared ==
  (Resolved /\ Cardinality(Candidates(Val(strategy_module))) >= 2) =>
    /\ ~IsNone(strategy_class)
    /\ \A c \in Candidates(Val(strategy_module)) :
         Val(strategy_class).line <= c.line

\* C8: the resolver never returns a class imported into the module; a
\* module with exactly one class of its own resolves to that class; a
\* module with none, imports or not, fails with the resolution error.
C8_ResolutionByLocality ==
  Resolved =>
    LET mod == Val(strategy_module)
    IN /\ ~IsNone(strategy_class) =>
            /\ mod.source[Val(strategy_class).line].kind = "class"
            /\ Val(strategy_class).module = mod.name
       /\ Cardinality(Candidates(mod)) = 1 =>
            Some(Val(strategy_class)) \in {Some(c) : c \in Candidates(mod)}
       /\ Candidates(mod) = {} =>
            /\ IsNone(strategy_class)
            /\ pc \in {"except", "exit"}
            /\ ~Has(calls, "run_strategy")
            /\ pc = "exit" =>
                 /\ exit_status = Some(1)
                 /\ output = <<"Error importing strategy">>

C8_Witness ==
  /\ Resolved /\ ~IsNone(strategy_class)
  /\ Cardinality(Candidates(Val(strategy_module))) = 1
  /\ \E i \in 1..Len(Val(strategy_module).source) :
       /\ Val(strategy_module).source[i].kind = "import"
       /\ NameRank(Val(strategy_module).source[i].name)
            < NameRank(Val(strategy_class).name)
  /\ Val(strategy_module).source[Val(strategy_class).line].kind = "class"

\* C9: configure_broker gives the Interactive Brokers connector for 'IB'
\* and the Kraken connector for 'Kraken'; for any other choice it raises
\* its error and constructs nothing; a run of the script never ends with
\* that error.
C9_BrokerSelector ==
  /\ (entry = "configure_broker" /\ pc = "returned") =>
       LET choice == Val(args).broker_choice
       IN /\ choice = "IB" =>
               /\ broker = Some([cls |-> "InteractiveBrokers",
                                 config |-> "INTERACTIVE_BROKERS_CONFIG"])
               /\ calls = <<"InteractiveBrokers">>
               /\ exception = "None"
          /\ choice = "Kraken" =>
               /\ broker = Some([cls |-> "Ccxt", config |-> "KRAKEN_CONFIG"])
               /\ calls = <<"Ccxt">>
               /\ exception = "None"
          /\ choice \notin {"IB", "Kraken"} =>
               /\ broker = None
               /\ calls = <<>>
               /\ exception = "ValueError: Invalid broker choice"
  /\ IsMain => exception # "ValueError: Invalid broker choice"

C9_Witness ==
  /\ entry = "configure_broker" /\ pc = "returned"
  /\ Val(args).broker_choice = "IB"
  /\ broker = Some([cls |-> "InteractiveBrokers",
                    config |-> "INTERACTIVE_BROKERS_CONFIG"])

\* C10: in backtest mode the dispatcher does not prompt, does not select a
\* broker and constructs no connector, runner or strategy instance; it
\* calls the backtest engine once, with arguments that are the same for
\* every broker choice.
C10_BacktestUnattended ==
  (IsBacktest /\ Has(calls, "run_strategy")) =>
    /\ \A c \in LiveCalls \cup {"input"} : ~Has(calls, c)
    /\ stdin = None /\ confirm = None
    /\ trader = None /\ broker = None /\ strategy = None
    /\ pc \in {"run_strategy", "exit"}
    /\ pc = "exit" =>
         /\ Count(calls, "backtest") = 1
         /\ exit_status = Some(0)
         /\ \A b \in BrokerChoices :
              backtest_call =
                Some(BacktestArguments(Val(strategy_class), b, start_date,
                                       end_date, Val(module_name), Val(now)))
         /\ Val(backtest_call).logfile = <<"logs", "my_strategy", "log">>

C10_Witness ==
  /\ IsBacktest /\ pc = "exit"
  /\ Val(args).broker = "IB"
  /\ Count(calls, "backtest") = 1
  /\ output = <<"Starting Backtest...">>

====
